---- MODULE Spec2Model ----
(* Model of src/app.py, the Streamlit predictive-maintenance dashboard.    *)
(* One render pass of the script is a sequence of steps (pc); the session  *)
(* is a sequence of render passes started by a control change or by the    *)
(* auto-refresh rerun.                                                     *)
(*                                                                         *)
(* Text is a sequence of one-character strings so that upper-casing,       *)
(* substring search, numeric parsing and sorting are computed, not assumed.*)
(* A table cell is a tagged record: text, number or missing (NaN).         *)
(* The feature columns RMS, Kurtosis and Fault_Energy are carried through  *)
(* by the script unchanged and take no part in any decision; they are not  *)
(* represented.                                                            *)
EXTENDS Integers, Sequences, FiniteSets, TLC

\* ------------------------------------------------------------------------
\* Bounds of the model
\* ------------------------------------------------------------------------
MaxRows == 2
MaxPasses == 3

\* ------------------------------------------------------------------------
\* Program constants
\* ------------------------------------------------------------------------
REFRESH_SECONDS == 300
TopN == 10
WindowLen == 7

\* ------------------------------------------------------------------------
\* Characters and text
\* ------------------------------------------------------------------------
Ord ==
  [c \in {" ", "-", "/"} |-> CASE c = " " -> 32 [] c = "-" -> 45 [] OTHER -> 47] @@
  [c \in {"0", "1", "2", "5"} |->
      CASE c = "0" -> 48 [] c = "1" -> 49 [] c = "2" -> 50 [] OTHER -> 53] @@
  [c \in {"A", "B", "C", "D", "E", "G", "I", "L", "M", "N", "O", "P", "R", "T", "W", "X", "Y"} |->
      CASE c = "A" -> 65 [] c = "B" -> 66 [] c = "C" -> 67 [] c = "D" -> 68
        [] c = "E" -> 69 [] c = "G" -> 71 [] c = "I" -> 73 [] c = "L" -> 76
        [] c = "M" -> 77 [] c = "N" -> 78 [] c = "O" -> 79 [] c = "P" -> 80
        [] c = "R" -> 82 [] c = "T" -> 84 [] c = "W" -> 87 [] c = "X" -> 88
        [] OTHER -> 89] @@
  [c \in {"a", "b", "c", "d", "e", "i", "l", "m", "n", "o", "r", "t", "w", "x", "y"} |->
      CASE c = "a" -> 97 [] c = "b" -> 98 [] c = "c" -> 99 [] c = "d" -> 100
        [] c = "e" -> 101 [] c = "i" -> 105 [] c = "l" -> 108 [] c = "m" -> 109
        [] c = "n" -> 110 [] c = "o" -> 111 [] c = "r" -> 114 [] c = "t" -> 116
        [] c = "w" -> 119 [] c = "x" -> 120 [] OTHER -> 121]

Alphabet == DOMAIN Ord

IsLower(c) == Ord[c] >= 97 /\ Ord[c] <= 122

IsDigit(c) == Ord[c] >= 48 /\ Ord[c] <= 57

\* Every lower-case letter of Alphabet has its upper-case letter in Alphabet.
UpperChar(c) ==
  IF IsLower(c) THEN CHOOSE u \in Alphabet : Ord[u] = Ord[c] - 32 ELSE c

Upper(s) == [i \in 1..Len(s) |-> UpperChar(s[i])]

Contains(s, pat) ==
  \E k \in 0..(Len(s) - Len(pat)) : \A j \in 1..Len(pat) : s[k + j] = pat[j]

RECURSIVE TextLess(_, _)
TextLess(s, t) ==
  IF t = <<>> THEN FALSE
  ELSE IF s = <<>> THEN TRUE
  ELSE IF Ord[Head(s)] # Ord[Head(t)] THEN Ord[Head(s)] < Ord[Head(t)]
  ELSE TextLess(Tail(s), Tail(t))

RECURSIVE ParseDigits(_, _)
ParseDigits(s, acc) ==
  IF s = <<>> THEN acc ELSE ParseDigits(Tail(s), 10 * acc + (Ord[Head(s)] - 48))

\* ------------------------------------------------------------------------
\* Cells
\* ------------------------------------------------------------------------
Str(s) == [t |-> "str", s |-> s, n |-> 0]

Num(n) == [t |-> "num", s |-> <<>>, n |-> n]

NaN == [t |-> "nan", s |-> <<>>, n |-> 0]

IsNa(c) == c.t = "nan"

ToNumeric(c) ==
  CASE c.t = "num" -> c
    [] c.t = "str" ->
         IF c.s # <<>> /\ (\A i \in 1..Len(c.s) : IsDigit(c.s[i]))
           THEN Num(ParseDigits(c.s, 0))
           ELSE NaN
    [] OTHER -> NaN

\* Comparisons of cells follow IEEE: any comparison with NaN is false.
Geq(a, b) == a.t = "num" /\ b.t = "num" /\ a.n >= b.n

Leq(a, b) == a.t = "num" /\ b.t = "num" /\ a.n <= b.n

\* ------------------------------------------------------------------------
\* Cleaning (lines 26-28)
\* ------------------------------------------------------------------------
Coerce(T) == [i \in 1..Len(T) |-> [T[i] EXCEPT !.predicted_RUL = ToNumeric(@)]]

\* Variant: predicted_RUL is left out of the dropna subset.
KeepRowNoRUL(r) == ~IsNa(r.asset_id) /\ ~IsNa(r.risk_bucket)

KeepRow(r) == ~IsNa(r.asset_id) /\ ~IsNa(r.predicted_RUL) /\ ~IsNa(r.risk_bucket)

DropNa(T) == SelectSeq(T, KeepRow)

Clean(T) == DropNa(Coerce(T))

\* ------------------------------------------------------------------------
\* Filtering (lines 47-51): boolean mask, then row selection
\* ------------------------------------------------------------------------
\* Variant: both ends of the range exclusive.
InRangeStrict(r, range) ==
  r.predicted_RUL.t = "num" /\ range[1].t = "num" /\ range[2].t = "num"
    /\ r.predicted_RUL.n > range[1].n /\ r.predicted_RUL.n < range[2].n

InRange(r, range) ==
  Geq(r.predicted_RUL, range[1]) /\ Leq(r.predicted_RUL, range[2])

Mask(T, B, range) ==
  [i \in 1..Len(T) |-> (T[i].risk_bucket \in B) /\ InRange(T[i], range)]

RECURSIVE TakeMasked(_, _, _)
TakeMasked(T, m, i) ==
  IF i > Len(T) THEN <<>>
  ELSE IF m[i] THEN <<T[i]>> \o TakeMasked(T, m, i + 1)
  ELSE TakeMasked(T, m, i + 1)

Filter(T, B, range) == TakeMasked(T, Mask(T, B, range), 1)

\* ------------------------------------------------------------------------
\* Sorting (sort_values on predicted_RUL, sorted() on text)
\* ------------------------------------------------------------------------
\* numpy's default sort is insertion sort on short arrays: ties keep their
\* input order.
RECURSIVE InsertByRUL(_, _)
InsertByRUL(r, S) ==
  IF S = <<>> THEN <<r>>
  ELSE IF r.predicted_RUL.n < Head(S).predicted_RUL.n THEN <<r>> \o S
  ELSE <<Head(S)>> \o InsertByRUL(r, Tail(S))

RECURSIVE SortByRUL(_)
SortByRUL(T) ==
  IF T = <<>> THEN <<>>
  ELSE InsertByRUL(T[Len(T)], SortByRUL(SubSeq(T, 1, Len(T) - 1)))

HeadN(T, k) == SubSeq(T, 1, IF Len(T) < k THEN Len(T) ELSE k)

RECURSIVE SortedTexts(_)
SortedTexts(S) ==
  IF S = {} THEN <<>>
  ELSE LET m == CHOOSE x \in S : \A y \in S \ {x} : TextLess(x.s, y.s)
       IN  <<m>> \o SortedTexts(S \ {m})

Column(T, col) == {T[i][col] : i \in 1..Len(T)}

\* ------------------------------------------------------------------------
\* KPIs (lines 61-65)
\* ------------------------------------------------------------------------
RED_LITERAL == Str(<<"R", "E", "D", " ", "-", " ", "I", "m", "m", "e", "d", "i", "a", "t", "e", " ", "A", "c", "t", "i", "o", "n">>)

NUnique(T) == Cardinality(Column(T, "asset_id"))

\* Variant: the KPI counts every label that contains RED, in any case.
CountRedLike(T, lit) ==
  Cardinality({i \in 1..Len(T) :
     T[i].risk_bucket.t = "str" /\ Contains(Upper(T[i].risk_bucket.s), <<"R", "E", "D">>)})

RECURSIVE CountEq(_, _)
CountEq(T, lit) ==
  IF T = <<>> THEN 0
  ELSE (IF Head(T).risk_bucket = lit THEN 1 ELSE 0) + CountEq(Tail(T), lit)

RECURSIVE SumRUL(_)
SumRUL(T) == IF T = <<>> THEN 0 ELSE Head(T).predicted_RUL.n + SumRUL(Tail(T))

\* round(mean, 1), in tenths of a day; an exact tie rounds to the even tenth.
\* The mean of an empty column is NaN.
MeanRounded(T) ==
  IF T = <<>> THEN NaN
  ELSE LET s10 == 10 * SumRUL(T)
           q   == s10 \div Len(T)
           r   == s10 % Len(T)
       IN  Num(IF 2 * r > Len(T) \/ (2 * r = Len(T) /\ q % 2 = 1) THEN q + 1 ELSE q)

RECURSIVE MinRUL(_)
MinRUL(T) ==
  IF T = <<>> THEN NaN
  ELSE LET m == MinRUL(Tail(T))
       IN  IF m.t = "nan" \/ Head(T).predicted_RUL.n < m.n THEN Head(T).predicted_RUL ELSE m

RECURSIVE MaxRUL(_)
MaxRUL(T) ==
  IF T = <<>> THEN NaN
  ELSE LET m == MaxRUL(Tail(T))
       IN  IF m.t = "nan" \/ Head(T).predicted_RUL.n > m.n THEN Head(T).predicted_RUL ELSE m

\* ------------------------------------------------------------------------
\* Action classification (lines 135-142)
\* ------------------------------------------------------------------------
\* Variant: the AMBER/YELLOW/PLAN test comes first.
ClassifyAmberFirst(label) ==
  LET bucket == Upper(label)
  IN  IF Contains(bucket, <<"A", "M", "B", "E", "R">>)
         \/ Contains(bucket, <<"Y", "E", "L", "L", "O", "W">>)
         \/ Contains(bucket, <<"P", "L", "A", "N">>) THEN "planned"
      ELSE IF Contains(bucket, <<"R", "E", "D">>) THEN "urgent"
      ELSE "normal"

Classify(label) ==
  LET bucket == Upper(label)
  IN  IF Contains(bucket, <<"R", "E", "D">>) THEN "urgent"
      ELSE IF Contains(bucket, <<"A", "M", "B", "E", "R">>) \/ Contains(bucket, <<"Y", "E", "L", "L", "O", "W">>)
              \/ Contains(bucket, <<"P", "L", "A", "N">>) THEN "planned"
      ELSE "normal"

\* ------------------------------------------------------------------------
\* Input files: what pd.read_csv can return
\* ------------------------------------------------------------------------
Row(a, r, b) == [asset_id |-> a, predicted_RUL |-> r, risk_bucket |-> b]

A1 == Str(<<"A", "1">>)
A2 == Str(<<"A", "2">>)
RED_LOWER == Str(<<"r", "e", "d", "-", "i", "m", "m", "e", "d", "i", "a", "t", "e">>)
RED_MIXED == Str(<<"R", "E", "D", "/", "A", "M", "B", "E", "R", "-", "m", "i", "x", "e", "d">>)
AMBER_PLAN == Str(<<"A", "M", "B", "E", "R", " ", "-", " ", "P", "l", "a", "n">>)
GREEN == Str(<<"G", "R", "E", "E", "N">>)
YELLOW == Str(<<"Y", "e", "l", "l", "o", "w">>)
PLAN == Str(<<"P", "l", "a", "n">>)

RowDomain ==
  { Row(A1, Num(50), RED_LITERAL),
    Row(A1, Num(5), AMBER_PLAN),
    Row(A2, Num(5), RED_LOWER),
    Row(A2, Str(<<"5", "0">>), RED_MIXED),
    Row(A2, Str(<<"a", "b", "c">>), GREEN),
    Row(NaN, Num(5), GREEN),
    Row(A1, NaN, RED_LITERAL),
    Row(A2, Num(50), NaN) }

RECURSIVE SeqsUpTo(_, _)
SeqsUpTo(S, k) ==
  IF k = 0 THEN {<<>>}
  ELSE LET shorter == SeqsUpTo(S, k - 1)
       IN  shorter \cup {Append(t, x) : t \in {u \in shorter : Len(u) = k - 1}, x \in S}

\* A fleet of twelve rows, more than the Top-10 list holds.
Fleet ==
  << Row(A1, Num(200), GREEN),       Row(A2, Num(50), RED_LITERAL),
     Row(A1, Num(50), GREEN),        Row(A2, Num(200), GREEN),
     Row(A1, Num(5), RED_LITERAL),   Row(A2, Num(200), RED_LITERAL),
     Row(A1, Num(200), RED_LITERAL), Row(A2, Num(5), GREEN),
     Row(A1, Num(50), RED_LITERAL),  Row(A2, Num(50), GREEN),
     Row(A1, Num(200), GREEN),       Row(A2, Num(5), RED_LITERAL) >>

SnapshotTables ==
  SeqsUpTo(RowDomain, MaxRows)
    \cup {Fleet, <<Row(A1, Num(5), YELLOW)>>, <<Row(A2, Num(50), PLAN)>>}

HRow(a, d) == [asset_id |-> a, day |-> d]

\* Eight rows for A1, one of them with an unreadable day, and none for A2.
HistoryTables ==
  { <<HRow(A1, Num(5)), HRow(A1, Num(2)), HRow(A1, Str(<<"x">>)), HRow(A1, Num(1)),
      HRow(A1, Num(20)), HRow(A1, Num(50)), HRow(A1, Num(10)), HRow(A1, Num(12))>> }

\* A read either returns a table or raises.
ReadResults(tables) ==
  {[ok |-> TRUE, table |-> t] : t \in tables} \cup {[ok |-> FALSE, table |-> <<>>]}

\* Positions the range slider is moved to.
SliderPoints == {5, 50, 200}

None == [t |-> "none", s |-> <<>>, n |-> 0]

\* ------------------------------------------------------------------------
\* Trend chart helpers (lines 164-209)
\* ------------------------------------------------------------------------
AssetRows(T, a) == SelectSeq(T, LAMBDA r : r.asset_id = a)

CoerceDay(H) == [i \in 1..Len(H) |-> [H[i] EXCEPT !.day = ToNumeric(@)]]

RECURSIVE InsertByDay(_, _)
InsertByDay(r, S) ==
  IF S = <<>> THEN <<r>>
  ELSE IF r.day.n < Head(S).day.n THEN <<r>> \o S
  ELSE <<Head(S)>> \o InsertByDay(r, Tail(S))

RECURSIVE SortByDay(_)
SortByDay(H) ==
  IF H = <<>> THEN <<>>
  ELSE InsertByDay(H[Len(H)], SortByDay(SubSeq(H, 1, Len(H) - 1)))

TrendDays(H) ==
  LET kept == SortByDay(SelectSeq(CoerceDay(H), LAMBDA r : ~IsNa(r.day)))
  IN  [i \in 1..Len(kept) |-> kept[i].day.n]

TrendLines(days, show_rms, show_kurt, smooth) ==
  {"Fault_Energy"}
    \cup (IF smooth /\ Len(days) >= WindowLen THEN {"Fault_Energy (7-day avg)"} ELSE {})
    \cup (IF show_rms THEN {"RMS"} ELSE {})
    \cup (IF show_kurt THEN {"Kurtosis"} ELSE {})

NoChart == [drawn |-> FALSE, days |-> <<>>, lines |-> {}]

NoKpi == [monitored |-> 0, highRisk |-> 0, avgRUL |-> NaN, inView |-> 0]

\* ------------------------------------------------------------------------
\* State
\* ------------------------------------------------------------------------
VARIABLES
  pc,             \* position of the script in the current render pass
  passes,         \* render passes started in this session
  toggle,         \* state of the auto-refresh toggle widget
  AUTO_REFRESH,   \* value of the toggle as read by the current pass
  page,           \* UI elements emitted by the current pass, in order
  df,             \* snapshot table (raw after the read, cleaned after cleaning)
  bucket_filter,  \* buckets selected in the multiselect
  rul_range,      \* <<lo, hi>> of the slider
  view,           \* filtered view
  kpi,            \* the four metrics
  ranking,        \* fleet risk ranking table
  top10,          \* Top-10 table
  csvRows,        \* rows handed to the CSV download
  asset,          \* selected asset
  row,            \* selected asset's row (at most one)
  advisory,       \* class of the recommended action shown
  history,        \* history table (bound by the read at line 163)
  chart,          \* trend chart
  slept,          \* seconds slept by the current pass
  snapshotReads,  \* reads of latest_snapshot.csv in this session
  historyReads    \* reads of dataset_full.csv in this session

locals ==
  <<AUTO_REFRESH, page, df, bucket_filter, rul_range, view, kpi, ranking, top10,
    csvRows, asset, row, advisory, history, chart, slept>>

vars == <<pc, passes, toggle, snapshotReads, historyReads, locals>>

\* A pass starts with nothing emitted and no script variable bound.
FreshLocals ==
  /\ AUTO_REFRESH' = FALSE
  /\ page' = <<>>
  /\ df' = <<>>
  /\ bucket_filter' = {}
  /\ rul_range' = <<NaN, NaN>>
  /\ view' = <<>>
  /\ kpi' = NoKpi
  /\ ranking' = <<>>
  /\ top10' = <<>>
  /\ csvRows' = <<>>
  /\ asset' = None
  /\ row' = <<>>
  /\ advisory' = "none"
  /\ history' = <<>>
  /\ chart' = NoChart
  /\ slept' = 0

Init ==
  /\ pc = "start"
  /\ passes = 1
  /\ toggle = FALSE
  /\ snapshotReads = 0
  /\ historyReads = 0
  /\ AUTO_REFRESH = FALSE
  /\ page = <<>>
  /\ df = <<>>
  /\ bucket_filter = {}
  /\ rul_range = <<NaN, NaN>>
  /\ view = <<>>
  /\ kpi = NoKpi
  /\ ranking = <<>>
  /\ top10 = <<>>
  /\ csvRows = <<>>
  /\ asset = None
  /\ row = <<>>
  /\ advisory = "none"
  /\ history = <<>>
  /\ chart = NoChart
  /\ slept = 0

\* ------------------------------------------------------------------------
\* One render pass
\* ------------------------------------------------------------------------
\* Lines 8-16: sidebar header and the auto-refresh toggle.
Controls ==
  /\ pc = "start"
  /\ page' = page \o <<"sidebar.header", "sidebar.toggle">>
  /\ AUTO_REFRESH' = toggle
  /\ pc' = "load"
  /\ UNCHANGED <<passes, toggle, snapshotReads, historyReads, df, bucket_filter,
                 rul_range, view, kpi, ranking, top10, csvRows, asset, row,
                 advisory, history, chart, slept>>

\* Variant: a failed read is swallowed and the script carries on to its end.
AfterReadErrorContinue == "refresh"

\* A failed read raises out of the script: the run ends there.
AfterReadError == "error"

\* Line 19: the read is issued in every pass; nothing caches its result.
\* Variant: a memoized loader reads once and then serves its cache.
SnapshotReadsMemo(n) == IF n = 0 THEN 1 ELSE n

SnapshotReadsAfter(n) == n + 1

LoadSnapshot ==
  /\ pc = "load"
  /\ snapshotReads' = SnapshotReadsAfter(snapshotReads)
  /\ \E f \in ReadResults(SnapshotTables) :
       IF f.ok THEN df' = f.table /\ pc' = "clean"
               ELSE df' = df /\ pc' = AfterReadError
  /\ UNCHANGED <<passes, toggle, historyReads, AUTO_REFRESH, page, bucket_filter,
                 rul_range, view, kpi, ranking, top10, csvRows, asset, row,
                 advisory, history, chart, slept>>

\* Lines 22-28: debug table, then cleaning.
Cleaning ==
  /\ pc = "clean"
  /\ page' = page \o <<"debug.subheader", "debug.value_counts">>
  /\ df' = Clean(df)
  /\ pc' = "filters"
  /\ UNCHANGED <<passes, toggle, snapshotReads, historyReads, AUTO_REFRESH,
                 bucket_filter, rul_range, view, kpi, ranking, top10, csvRows,
                 asset, row, advisory, history, chart, slept>>

\* Lines 31-45: what the two filter widgets can return for table T.
BucketChoices(T) == SUBSET Column(T, "risk_bucket")

\* The minimum and maximum of an empty column are NaN (lines 38-39); the
\* slider is then given NaN bounds and returns them.
RangeChoices(T) ==
  IF T = <<>> THEN {<<NaN, NaN>>}
  ELSE LET pts == {p \in SliderPoints : MinRUL(T).n <= p /\ p <= MaxRUL(T).n}
       IN  {<<Num(q[1]), Num(q[2])>> : q \in {p \in pts \X pts : p[1] <= p[2]}}

\* Lines 31-51: filter widgets and the filtered view.
Filters ==
  /\ pc = "filters"
  /\ page' = page \o <<"sidebar.multiselect", "sidebar.slider">>
  /\ \E B \in BucketChoices(df), range \in RangeChoices(df) :
       /\ bucket_filter' = B
       /\ rul_range' = range
       /\ view' = Filter(df, B, range)
  /\ pc' = "overview"
  /\ UNCHANGED <<passes, toggle, snapshotReads, historyReads, AUTO_REFRESH, df,
                 kpi, ranking, top10, csvRows, asset, row, advisory, history, chart, slept>>

\* Lines 56-96: title, KPIs, ranking table, Top-10 table, CSV download.
\* The download is given the filtered view; its serialisation is pandas'.
KpiOf(T, V) ==
  [monitored |-> NUnique(T),
   highRisk  |-> CountEq(T, RED_LITERAL),
   avgRUL    |-> MeanRounded(T),
   inView    |-> NUnique(V)]

RankingOf(V) == SortByRUL(V)

\* Variant: the Top-10 list is taken from the filtered view.
Top10OfView(T, V) == HeadN(SortByRUL(V), TopN)

Top10Of(T, V) == HeadN(SortByRUL(T), TopN)

Overview ==
  /\ pc = "overview"
  /\ page' = page \o <<"title", "banner", "metric.monitored", "metric.high_risk",
                       "metric.avg_rul", "metric.in_view", "divider",
                       "ranking.subheader", "ranking.table", "top10.subheader",
                       "top10.table", "download_button", "divider">>
  /\ kpi' = KpiOf(df, view)
  /\ ranking' = RankingOf(view)
  /\ top10' = Top10Of(df, view)
  /\ csvRows' = view
  /\ pc' = "select"
  /\ UNCHANGED <<passes, toggle, snapshotReads, historyReads, AUTO_REFRESH, df,
                 bucket_filter, rul_range, view, asset, row, advisory, history, chart, slept>>

\* Line 103: the selectbox returns one of its options, or None when it has none.
AssetChoices(T) ==
  IF Column(T, "asset_id") = {} THEN {None} ELSE Column(T, "asset_id")

\* Line 113: the selected asset's row with the smallest predicted_RUL.
LatestRow(T, a) == HeadN(SortByRUL(AssetRows(T, a)), 1)

\* Lines 115-117: st.stop() ends the script run; no later line is executed.
AfterNoSnapshotRow == "stopped"

\* Lines 101-117: asset selection; an empty row warns and stops.
SelectAsset ==
  /\ pc = "select"
  /\ \E a \in AssetChoices(df) :
       /\ asset' = a
       /\ row' = LatestRow(df, a)
       /\ IF LatestRow(df, a) = <<>>
            THEN /\ page' = page \o <<"drill.subheader", "selectbox", "warning.no_snapshot_row">>
                 /\ pc' = AfterNoSnapshotRow
            ELSE /\ page' = page \o <<"drill.subheader", "selectbox">>
                 /\ pc' = "classify"
  /\ UNCHANGED <<passes, toggle, snapshotReads, historyReads, AUTO_REFRESH, df,
                 bucket_filter, rul_range, view, kpi, ranking, top10, csvRows,
                 advisory, history, chart, slept>>

AdvisoryElement(class) ==
  CASE class = "urgent" -> "advisory.error"
    [] class = "planned" -> "advisory.warning"
    [] OTHER -> "advisory.success"

\* Lines 122-159: recommended action, asset metrics, current feature values.
RecommendedAction ==
  /\ pc = "classify"
  /\ advisory' = Classify(row[1].risk_bucket.s)
  /\ page' = page \o <<"action.subheader", AdvisoryElement(Classify(row[1].risk_bucket.s)),
                       "metric.bucket", "metric.rul", "metric.rms", "metric.kurtosis",
                       "features.title", "features.table">>
  /\ pc' = "trend"
  /\ UNCHANGED <<passes, toggle, snapshotReads, historyReads, AUTO_REFRESH, df,
                 bucket_filter, rul_range, view, kpi, ranking, top10, csvRows,
                 asset, row, history, chart, slept>>

\* Line 163: the read is issued in every pass that gets here.
HistoryReadsAfter(n) == n + 1

\* Variant: the missing-history branch stops the script like the branch at line 117.
AfterNoHistoryStop == "stopped"

\* Lines 166-167: the warning is the whole branch; the script carries on.
AfterNoHistory == "refresh"

\* Lines 161-209: history read, then the advisory or the chart.
Trend ==
  /\ pc = "trend"
  /\ historyReads' = HistoryReadsAfter(historyReads)
  /\ \E h \in ReadResults(HistoryTables) :
       IF ~h.ok
         THEN pc' = AfterReadError /\ UNCHANGED <<page, history, chart>>
         ELSE /\ history' = h.table
              /\ IF AssetRows(h.table, asset) = <<>>
                   THEN /\ page' = Append(page, "warning.no_history")
                        /\ chart' = chart
                        /\ pc' = AfterNoHistory
                   ELSE \E show_rms, show_kurt, smooth \in BOOLEAN :
                          /\ page' = page \o <<"checkbox.rms", "checkbox.kurtosis",
                                               "checkbox.smooth", "trend.title", "pyplot">>
                          /\ chart' =
                               [drawn |-> TRUE,
                                days  |-> TrendDays(AssetRows(h.table, asset)),
                                lines |-> TrendLines(TrendDays(AssetRows(h.table, asset)),
                                                     show_rms, show_kurt, smooth)]
                          /\ pc' = "refresh"
  /\ UNCHANGED <<passes, toggle, snapshotReads, AUTO_REFRESH, df, bucket_filter,
                 rul_range, view, kpi, ranking, top10, csvRows, asset, row,
                 advisory, slept>>

\* Variant: the sleep-and-rerun is entered whatever the toggle says.
AutoRefreshAlways ==
  /\ pc = "refresh"
  /\ pc' = "sleeping"
  /\ UNCHANGED <<passes, toggle, snapshotReads, historyReads, locals>>

\* Line 214: the toggle value read at line 15 decides.
AutoRefresh ==
  /\ pc = "refresh"
  /\ pc' = IF AUTO_REFRESH THEN "sleeping" ELSE "done"
  /\ UNCHANGED <<passes, toggle, snapshotReads, historyReads, locals>>

\* Line 215: time.sleep(REFRESH_SECONDS).
Sleep ==
  /\ pc = "sleeping"
  /\ slept' = slept + REFRESH_SECONDS
  /\ pc' = "rerun"
  /\ UNCHANGED <<passes, toggle, snapshotReads, historyReads, AUTO_REFRESH, page,
                 df, bucket_filter, rul_range, view, kpi, ranking, top10, csvRows,
                 asset, row, advisory, history, chart>>

\* Line 216: st.rerun() starts the script again from its first line.
Rerun ==
  /\ pc = "rerun"
  /\ passes < MaxPasses
  /\ passes' = passes + 1
  /\ pc' = "start"
  /\ FreshLocals
  /\ UNCHANGED <<toggle, snapshotReads, historyReads>>

\* ------------------------------------------------------------------------
\* The user
\* ------------------------------------------------------------------------
\* A control change on a page whose script run has ended starts a new pass.
\* The filter, asset and checkbox widgets are read where the pass reaches them.
Interact ==
  /\ pc \in {"done", "stopped", "error"}
  /\ passes < MaxPasses
  /\ passes' = passes + 1
  /\ \E t \in BOOLEAN : toggle' = t
  /\ pc' = "start"
  /\ FreshLocals
  /\ UNCHANGED <<snapshotReads, historyReads>>

\* The toggle is flipped while the script sleeps; the sleep is not interrupted.
ToggleWhileSleeping ==
  /\ pc = "sleeping"
  /\ toggle' = ~toggle
  /\ UNCHANGED <<pc, passes, snapshotReads, historyReads, locals>>

Next ==
  \/ Controls
  \/ LoadSnapshot
  \/ Cleaning
  \/ Filters
  \/ Overview
  \/ SelectAsset
  \/ RecommendedAction
  \/ Trend
  \/ AutoRefresh
  \/ Sleep
  \/ Rerun
  \/ Interact
  \/ ToggleWhileSleeping

Spec == Init /\ [][Next]_vars

\* ------------------------------------------------------------------------
\* Properties
\* ------------------------------------------------------------------------
Elems(S) == {S[i] : i \in 1..Len(S)}

Count(S, x) == Cardinality({i \in 1..Len(S) : S[i] = x})

Shown(e) == e \in Elems(page)

PastTrend == pc \in {"refresh", "sleeping", "rerun", "done"}

SortedByRUL(S) ==
  \A i \in 1..Len(S) : \A j \in i..Len(S) : S[i].predicted_RUL.n <= S[j].predicted_RUL.n

\* C1: once the filter widgets have been read, the filtered view holds exactly
\* the rows of the cleaned table whose bucket is selected and whose
\* predicted_RUL lies in [lo, hi], both ends included, each as often as the
\* table holds it; filtering the view again with the same arguments returns it.
Wanted(r) ==
  /\ r.risk_bucket \in bucket_filter
  /\ rul_range[1].t = "num" /\ rul_range[2].t = "num"
  /\ rul_range[1].n <= r.predicted_RUL.n
  /\ r.predicted_RUL.n <= rul_range[2].n

FilterExact ==
  Shown("sidebar.slider") =>
    /\ \A r \in Elems(df) \cup Elems(view) :
         Count(view, r) = IF Wanted(r) THEN Count(df, r) ELSE 0
    /\ Filter(view, bucket_filter, rul_range) = view

FilterExactWitness ==
  /\ Shown("sidebar.slider")
  /\ \E i \in 1..Len(view) : view[i].predicted_RUL = rul_range[1]
  /\ \E i \in 1..Len(view) : view[i].predicted_RUL = rul_range[2]
  /\ \E i \in 1..Len(df) :
       df[i].risk_bucket \in bucket_filter /\ df[i].predicted_RUL.n < rul_range[1].n
  /\ \E i \in 1..Len(df) : df[i].risk_bucket \notin bucket_filter

\* C2: a pass shows exactly one advisory once it has classified the selected
\* asset's row and none before; the class is urgent when the label contains
\* RED in any letter case, otherwise planned when it contains AMBER, YELLOW
\* or PLAN, otherwise normal; RED/AMBER-mixed is urgent.
ContainsCI(s, pat) ==
  \E k \in 0..(Len(s) - Len(pat)) :
    \A j \in 1..Len(pat) : Ord[s[k + j]] \in {Ord[pat[j]], Ord[pat[j]] + 32}

ExpectedClass(s) ==
  IF ContainsCI(s, <<"R", "E", "D">>) THEN "urgent"
  ELSE IF ContainsCI(s, <<"A", "M", "B", "E", "R">>)
          \/ ContainsCI(s, <<"Y", "E", "L", "L", "O", "W">>)
          \/ ContainsCI(s, <<"P", "L", "A", "N">>) THEN "planned"
  ELSE "normal"

AdvisoryCount ==
  Cardinality({i \in 1..Len(page) :
     page[i] \in {"advisory.error", "advisory.warning", "advisory.success"}})

ClassificationPrecedence ==
  /\ AdvisoryCount = IF Shown("action.subheader") THEN 1 ELSE 0
  /\ Shown("action.subheader") =>
       /\ advisory = ExpectedClass(row[1].risk_bucket.s)
       /\ Shown("advisory.error") <=> advisory = "urgent"
       /\ Shown("advisory.warning") <=> advisory = "planned"
       /\ Shown("advisory.success") <=> advisory = "normal"
       /\ row[1].risk_bucket = RED_MIXED => advisory = "urgent"

ClassificationPrecedenceWitness ==
  /\ Shown("advisory.error")
  /\ row[1].risk_bucket = RED_MIXED
  /\ advisory = "urgent"

\* C3: when the overview has been rendered, the Top-10 table and the three
\* fleet KPIs are figures of the cleaned
\* table alone: the Top-10 table is the ten smallest-RUL rows of the table in
\* ascending order, and under every other setting of the two filter widgets
\* over the same table the pass would show the same Top-10 table and fleet
\* KPIs; the ranking table, Assets in View and the CSV rows are those of the
\* filtered view.
FleetFiguresIgnoreFilter ==
  pc = "select" =>
    /\ Shown("top10.table")
    /\ Len(top10) = IF Len(df) < TopN THEN Len(df) ELSE TopN
    /\ SortedByRUL(top10)
    /\ \A r \in Elems(top10) : Count(top10, r) <= Count(df, r)
    /\ \A r \in Elems(df) :
         Count(top10, r) < Count(df, r) =>
           \A i \in 1..Len(top10) : top10[i].predicted_RUL.n <= r.predicted_RUL.n
    /\ kpi.monitored = Cardinality({df[i].asset_id : i \in 1..Len(df)})
    /\ kpi.highRisk = Cardinality({i \in 1..Len(df) : df[i].risk_bucket = RED_LITERAL})
    /\ IF df = <<>> THEN kpi.avgRUL = NaN
       ELSE /\ kpi.avgRUL.t = "num"
            /\ 2 * (kpi.avgRUL.n * Len(df) - 10 * SumRUL(df)) <= Len(df)
            /\ 2 * (10 * SumRUL(df) - kpi.avgRUL.n * Len(df)) <= Len(df)
    /\ \A B \in BucketChoices(df), range \in RangeChoices(df) :
         LET other == Filter(df, B, range)
             k     == KpiOf(df, other)
         IN  /\ Top10Of(df, other) = top10
             /\ k.monitored = kpi.monitored
             /\ k.highRisk = kpi.highRisk
             /\ k.avgRUL = kpi.avgRUL
    /\ SortedByRUL(ranking)
    /\ \A r \in Elems(ranking) \cup Elems(view) : Count(ranking, r) = Count(view, r)
    /\ kpi.inView = Cardinality({view[i].asset_id : i \in 1..Len(view)})
    /\ csvRows = view

FleetFiguresIgnoreFilterWitness ==
  /\ pc = "select"
  /\ Len(df) > TopN
  /\ Len(top10) = TopN
  /\ view # <<>>
  /\ Len(view) < TopN
  /\ kpi.inView < kpi.monitored

\* C4 as stated: the High Risk KPI counts exactly the rows labelled
\* "RED - Immediate Action", and every asset the KPI counts is classified
\* urgent when it is selected in the drill-down.
KpiAssetsAreUrgent ==
  /\ Shown("metric.high_risk") =>
       kpi.highRisk = Cardinality({i \in 1..Len(df) : df[i].risk_bucket = RED_LITERAL})
  /\ (Shown("action.subheader")
        /\ \E i \in 1..Len(df) : df[i].asset_id = asset /\ df[i].risk_bucket = RED_LITERAL)
       => advisory = "urgent"

\* C4 amended: the High Risk KPI counts exactly the rows labelled
\* "RED - Immediate Action"; a selected row labelled "red-immediate" is not
\* counted and is classified urgent; a selected row that the KPI counts is
\* classified urgent.
HighRiskKpiExact ==
  /\ Shown("metric.high_risk") =>
       kpi.highRisk = Cardinality({i \in 1..Len(df) : df[i].risk_bucket = RED_LITERAL})
  /\ (Shown("action.subheader") /\ row[1].risk_bucket = RED_LOWER) =>
       /\ advisory = "urgent"
       /\ kpi.highRisk <= Len(df) - Count(df, row[1])
  /\ (Shown("action.subheader") /\ row[1].risk_bucket = RED_LITERAL) =>
       advisory = "urgent"

HighRiskKpiExactWitness ==
  /\ Shown("advisory.error")
  /\ row[1].risk_bucket = RED_LOWER
  /\ kpi.highRisk = 0
  /\ Len(df) > 0

PageComplete ==
  /\ Shown("ranking.table") /\ Shown("top10.table") /\ Shown("features.table")
  /\ Shown("pyplot") \/ Shown("warning.no_history")

AutoRefreshCycle ==
  /\ [](pc \in {"sleeping", "rerun"} => AUTO_REFRESH /\ PageComplete)
  /\ [](pc = "done" => ~AUTO_REFRESH /\ PageComplete)
  /\ [](pc = "sleeping" => slept = 0)
  /\ [](pc = "rerun" => slept = REFRESH_SECONDS)
  /\ [][/\ pc = "refresh" => pc' = IF AUTO_REFRESH THEN "sleeping" ELSE "done"
        /\ (pc = "sleeping" /\ pc' # pc) => pc' = "rerun"
        /\ pc = "rerun" => (pc' = "start" /\ page' = <<>> /\ passes' = passes + 1)
        /\ pc = "done" => (pc' = "start" /\ toggle' \in BOOLEAN)]_vars

AutoRefreshCycleWitness ==
  /\ pc = "rerun"
  /\ AUTO_REFRESH
  /\ slept = REFRESH_SECONDS
  /\ Shown("pyplot")

\* C7: when the history table has no row for the selected asset, the pass
\* shows the no-history warning and no chart, keeps everything it had
\* emitted, and goes on to the auto-refresh step, which sleeps and reruns
\* when the toggle is on.
NoHistoryKeepsPage ==
  /\ [](PastTrend => (AssetRows(history, asset) = <<>> <=> Shown("warning.no_history")))
  /\ [](Shown("warning.no_history") =>
          /\ PastTrend
          /\ ~chart.drawn
          /\ ~Shown("pyplot")
          /\ Shown("features.table") /\ Shown("top10.table") /\ Shown("ranking.table")
          /\ pc = "done" => ~AUTO_REFRESH)
  /\ [][(pc = "trend" /\ "warning.no_history" \in Elems(page')) =>
          /\ pc' = "refresh"
          /\ page' = Append(page, "warning.no_history")]_vars

NoHistoryKeepsPageWitness ==
  /\ pc = "rerun"
  /\ Shown("warning.no_history")
  /\ row # <<>>
  /\ history # <<>>

\* C8 as stated: a pass in which a read failed has emitted no UI element.
ReadFailureNoOutput == pc = "error" => page = <<>>

\* C8 amended: a failed read ends the pass at the read. What the script
\* emitted before the read stays (the sidebar header and toggle for
\* latest_snapshot.csv; everything up to the current-feature table for
\* dataset_full.csv), nothing the script emits after the read is produced,
\* and no later step of the pass runs, the auto-refresh included.
ReadFailureStopsAtRead ==
  /\ [](pc = "error" =>
          \/ page = <<"sidebar.header", "sidebar.toggle">>
          \/ /\ page[Len(page)] = "features.table"
             /\ ~Shown("pyplot") /\ ~Shown("warning.no_history")
             /\ ~Shown("checkbox.rms") /\ ~chart.drawn)
  /\ [](pc \in {"clean", "filters", "overview", "select", "classify", "trend"} =>
          snapshotReads >= 1)
  /\ [](PastTrend => Shown("pyplot") \/ Shown("warning.no_history"))
  /\ [][pc = "error" => (pc' = "start" /\ page' = <<>>)]_vars

ReadFailureStopsAtReadWitness ==
  /\ pc = "error"
  /\ Shown("features.table")
  /\ AUTO_REFRESH

\* C9: a pass that has shown the no-snapshot-row warning still runs the
\* steps after the drill-down section, the auto-refresh step among them.
NoSnapshotRowContinues ==
  Shown("warning.no_snapshot_row") => PastTrend

\* C10: the cleaning step keeps, in order, exactly the input rows whose
\* asset_id and risk_bucket are present and whose predicted_RUL is a number
\* or text that reads as one; every kept row has a numeric predicted_RUL
\* (the number itself, or the value of the text) and is otherwise unchanged;
\* cleaning the cleaned table again returns it.
ValidRaw(r) ==
  /\ r.asset_id.t # "nan"
  /\ r.risk_bucket.t # "nan"
  /\ \/ r.predicted_RUL.t = "num"
     \/ /\ r.predicted_RUL.t = "str"
        /\ r.predicted_RUL.s # <<>>
        /\ \A i \in 1..Len(r.predicted_RUL.s) :
             r.predicted_RUL.s[i] \in {"0", "1", "2", "5"}

CleanedFrom(raw, cleaned) ==
  LET valid == {i \in 1..Len(raw) : ValidRaw(raw[i])}
      pos(i) == Cardinality({j \in valid : j <= i})
  IN  /\ Len(cleaned) = Cardinality(valid)
      /\ \A i \in valid :
           /\ cleaned[pos(i)].asset_id = raw[i].asset_id
           /\ cleaned[pos(i)].risk_bucket = raw[i].risk_bucket
           /\ cleaned[pos(i)].predicted_RUL.t = "num"
           /\ raw[i].predicted_RUL.t = "num" =>
                cleaned[pos(i)].predicted_RUL = raw[i].predicted_RUL
           /\ raw[i].predicted_RUL = Str(<<"5", "0">>) =>
                cleaned[pos(i)].predicted_RUL = Num(50)
      /\ \A k \in 1..Len(cleaned) :
           /\ cleaned[k].predicted_RUL.t = "num"
           /\ cleaned[k].asset_id.t = "str"
           /\ cleaned[k].risk_bucket.t = "str"
      /\ Clean(cleaned) = cleaned

CleaningExact == [][pc = "clean" => CleanedFrom(df, df')]_vars

CleaningExactWitness ==
  /\ pc = "filters"
  /\ Len(df) = 1
  /\ df[1] = Row(A2, Num(50), RED_MIXED)

====
